---- MODULE Spec2Model ----
(***************************************************************************)
(* gen_container_ids.py: derive a 128-bit BLAKE2b identifier for each      *)
(* container name and dump the name -> identifier mapping as JSON on       *)
(* standard output.                                                        *)
(*                                                                         *)
(* Text (Python str) is a sequence of Unicode code points, bytes are a     *)
(* sequence of 0..255.  A 64-bit word of the hash is a tuple of four       *)
(* 16-bit limbs, least significant first, so that no intermediate value    *)
(* exceeds the checker's integers.                                         *)
(***************************************************************************)
EXTENDS Integers, Sequences, FiniteSets, TLC

----------------------------------------------------------------------------
(* 64-bit word arithmetic.  An operand that is used more than once is      *)
(* bound to its value first (x \in {e}), so that it is computed once.      *)

Pow2(n) == 2^n

\* a xor b for a, b in 0..15, at [a + 1][b + 1]
XorNibble == <<
  << 0,  1,  2,  3,  4,  5,  6,  7,  8,  9, 10, 11, 12, 13, 14, 15>>,
  << 1,  0,  3,  2,  5,  4,  7,  6,  9,  8, 11, 10, 13, 12, 15, 14>>,
  << 2,  3,  0,  1,  6,  7,  4,  5, 10, 11,  8,  9, 14, 15, 12, 13>>,
  << 3,  2,  1,  0,  7,  6,  5,  4, 11, 10,  9,  8, 15, 14, 13, 12>>,
  << 4,  5,  6,  7,  0,  1,  2,  3, 12, 13, 14, 15,  8,  9, 10, 11>>,
  << 5,  4,  7,  6,  1,  0,  3,  2, 13, 12, 15, 14,  9,  8, 11, 10>>,
  << 6,  7,  4,  5,  2,  3,  0,  1, 14, 15, 12, 13, 10, 11,  8,  9>>,
  << 7,  6,  5,  4,  3,  2,  1,  0, 15, 14, 13, 12, 11, 10,  9,  8>>,
  << 8,  9, 10, 11, 12, 13, 14, 15,  0,  1,  2,  3,  4,  5,  6,  7>>,
  << 9,  8, 11, 10, 13, 12, 15, 14,  1,  0,  3,  2,  5,  4,  7,  6>>,
  <<10, 11,  8,  9, 14, 15, 12, 13,  2,  3,  0,  1,  6,  7,  4,  5>>,
  <<11, 10,  9,  8, 15, 14, 13, 12,  3,  2,  1,  0,  7,  6,  5,  4>>,
  <<12, 13, 14, 15,  8,  9, 10, 11,  4,  5,  6,  7,  0,  1,  2,  3>>,
  <<13, 12, 15, 14,  9,  8, 11, 10,  5,  4,  7,  6,  1,  0,  3,  2>>,
  <<14, 15, 12, 13, 10, 11,  8,  9,  6,  7,  4,  5,  2,  3,  0,  1>>,
  <<15, 14, 13, 12, 11, 10,  9,  8,  7,  6,  5,  4,  3,  2,  1,  0>> >>

Xor16(a, b) ==
           XorNibble[(a % 16) + 1][(b % 16) + 1]
  + 16   * XorNibble[((a \div 16) % 16) + 1][((b \div 16) % 16) + 1]
  + 256  * XorNibble[((a \div 256) % 16) + 1][((b \div 256) % 16) + 1]
  + 4096 * XorNibble[(a \div 4096) + 1][(b \div 4096) + 1]

Xor64(x, y) ==
  <<Xor16(x[1], y[1]), Xor16(x[2], y[2]), Xor16(x[3], y[3]), Xor16(x[4], y[4])>>

Add64(x, y) ==
  CHOOSE r \in
    { <<s1 % 65536,
        (x[2] + y[2] + (s1 \div 65536)) % 65536,
        (x[3] + y[3] + ((x[2] + y[2] + (s1 \div 65536)) \div 65536)) % 65536,
        (x[4] + y[4] + ((x[3] + y[3] + ((x[2] + y[2] + (s1 \div 65536)) \div 65536))
                          \div 65536)) % 65536>>
      : s1 \in {x[1] + y[1]} } : TRUE

Not64(x) == <<65535 - x[1], 65535 - x[2], 65535 - x[3], 65535 - x[4]>>

\* rotate right by n bits, 0 <= n < 64
Rotr64(x, n) ==
  LET q == n \div 16
      k == n % 16
      limb(p) == x[((p - 1 + q) % 4) + 1]
      rot(p)  == (limb(p) \div Pow2(k)) + (limb(p + 1) % Pow2(k)) * Pow2(16 - k)
  IN  <<rot(1), rot(2), rot(3), rot(4)>>

\* (x + y + z) mod 2^64
Add3(x, y, z) == CHOOSE r \in {Add64(s, z) : s \in {Add64(x, y)}} : TRUE

\* (x xor y) >>> n
RotrXor(x, y, n) == CHOOSE r \in {Rotr64(z, n) : z \in {Xor64(x, y)}} : TRUE

\* x xor y xor z
Xor3(x, y, z) == CHOOSE r \in {Xor64(w, z) : w \in {Xor64(x, y)}} : TRUE

\* a small non-negative integer as a 64-bit word
Word(n) == <<n % 65536, n \div 65536, 0, 0>>

----------------------------------------------------------------------------
(* BLAKE2b (RFC 7693), unkeyed, sequential mode, as hashlib.blake2b        *)

IV == <<
  <<51464, 62396, 58983, 27145>>,
  <<42811, 33994, 44677, 47975>>,
  <<63531, 65172, 62322, 15470>>,
  <<14065, 24349, 62778, 42319>>,
  <<33489, 44518, 21119, 20750>>,
  <<27679, 11070, 26764, 39685>>,
  <<48491, 64321, 55723, 8067>>,
  <<8569, 4990, 52505, 23520>> >>

SIGMA == <<
  <<0, 1, 2, 3, 4, 5, 6, 7, 8, 9, 10, 11, 12, 13, 14, 15>>,
  <<14, 10, 4, 8, 9, 15, 13, 6, 1, 12, 0, 2, 11, 7, 5, 3>>,
  <<11, 8, 12, 0, 5, 2, 15, 13, 10, 14, 3, 6, 7, 1, 9, 4>>,
  <<7, 9, 3, 1, 13, 12, 11, 14, 2, 6, 5, 10, 4, 0, 15, 8>>,
  <<9, 0, 5, 7, 2, 4, 10, 15, 14, 1, 11, 12, 6, 8, 3, 13>>,
  <<2, 12, 6, 10, 0, 11, 8, 3, 4, 13, 7, 5, 15, 14, 1, 9>>,
  <<12, 5, 1, 15, 14, 13, 4, 10, 0, 7, 6, 3, 9, 2, 8, 11>>,
  <<13, 11, 7, 14, 12, 1, 3, 9, 5, 0, 15, 4, 8, 6, 2, 10>>,
  <<6, 15, 14, 9, 11, 3, 0, 8, 12, 2, 13, 7, 1, 4, 10, 5>>,
  <<10, 2, 8, 4, 7, 6, 1, 5, 15, 11, 9, 14, 3, 12, 13, 0>> >>

\* the work-vector indices (from 0) of the eight mixings of a round:
\* four columns, then four diagonals
MixIndex == <<
  <<0, 4, 8, 12>>, <<1, 5, 9, 13>>, <<2, 6, 10, 14>>, <<3, 7, 11, 15>>,
  <<0, 5, 10, 15>>, <<1, 6, 11, 12>>, <<2, 7, 8, 13>>, <<3, 4, 9, 14>> >>

BlockBytes == 128
Rounds == 12

\* half of the mixing function on q = <<a, b, c, d>> with message word m:
\* a = a + b + m; d = (d xor a) >>> r1; c = c + d; b = (b xor c) >>> r2
GHalf(q, m, r1, r2) ==
  CHOOSE r \in
    UNION { UNION { { <<a, RotrXor(q[2], c, r2), c, d>>
                      : c \in {Add64(q[3], d)} }
                    : d \in {RotrXor(q[4], a, r1)} }
            : a \in {Add3(q[1], q[2], m)} } : TRUE

\* the mixing function G on words a, b, c, d (indices from 0) of v
G(v, a, b, c, d, x, y) ==
  CHOOSE r \in
    { [v EXCEPT ![a + 1] = h[1], ![b + 1] = h[2], ![c + 1] = h[3], ![d + 1] = h[4]]
      : h \in UNION { {GHalf(g, y, 16, 63)}
                      : g \in UNION { {GHalf(q, x, 32, 24)}
                                      : q \in {<<v[a + 1], v[b + 1], v[c + 1], v[d + 1]>>} } }
    } : TRUE

\* mixing number k (from 0) of the compression: number k % 8 of round k \div 8
Mixing(v, m, k) ==
  LET s   == SIGMA[((k \div 8) % 10) + 1]
      idx == MixIndex[(k % 8) + 1]
      g   == k % 8
  IN  G(v, idx[1], idx[2], idx[3], idx[4], m[s[2 * g + 1] + 1], m[s[2 * g + 2] + 1])

\* mixings lo..hi applied in turn to v, by halves
RECURSIVE MixRange(_, _, _, _)
MixRange(v, m, lo, hi) ==
  IF lo = hi THEN Mixing(v, m, lo)
  ELSE CHOOSE r \in
         { MixRange(w, m, mid + 1, hi)
           : w \in UNION { {MixRange(v, m, lo, md)} : md \in {(lo + hi) \div 2} },
             mid \in {(lo + hi) \div 2} } : TRUE

\* the work vector at the start of a compression
WorkVector(h, t, f) ==
  <<h[1], h[2], h[3], h[4], h[5], h[6], h[7], h[8],
    IV[1], IV[2], IV[3], IV[4],
    Xor64(IV[5], Word(t)), IV[6], IF f THEN Not64(IV[7]) ELSE IV[7], IV[8]>>

\* the compression function: chaining value h, 16 message words m,
\* byte counter t (below 2^32 here), final-block flag f
F(h, m, t, f) ==
  CHOOSE r \in
    { <<Xor3(h[1], v[1], v[9]),  Xor3(h[2], v[2], v[10]),
        Xor3(h[3], v[3], v[11]), Xor3(h[4], v[4], v[12]),
        Xor3(h[5], v[5], v[13]), Xor3(h[6], v[6], v[14]),
        Xor3(h[7], v[7], v[15]), Xor3(h[8], v[8], v[16])>>
      : v \in UNION { {MixRange(v0, m, 0, 8 * Rounds - 1)}
                      : v0 \in {WorkVector(h, t, f)} } } : TRUE

\* byte at 0-based offset p of data, zero beyond its end (block padding)
ByteAt(data, p) == IF p < Len(data) THEN data[p + 1] ELSE 0

\* the little-endian 64-bit word at byte offset p of data
WordAt(data, p) ==
  <<ByteAt(data, p)     + 256 * ByteAt(data, p + 1),
    ByteAt(data, p + 2) + 256 * ByteAt(data, p + 3),
    ByteAt(data, p + 4) + 256 * ByteAt(data, p + 5),
    ByteAt(data, p + 6) + 256 * ByteAt(data, p + 7)>>

\* the 16 words of block number blk (from 0)
BlockWords(data, blk) ==
  LET w(n) == WordAt(data, blk * BlockBytes + 8 * n)
  IN  <<w(0), w(1), w(2),  w(3),  w(4),  w(5),  w(6),  w(7),
        w(8), w(9), w(10), w(11), w(12), w(13), w(14), w(15)>>

NumBlocks(data) ==
  IF Len(data) = 0 THEN 1 ELSE (Len(data) + BlockBytes - 1) \div BlockBytes

RECURSIVE Compress(_, _, _)
Compress(h, data, blk) ==
  IF blk = NumBlocks(data) - 1
    THEN CHOOSE r \in {F(h, m, Len(data), TRUE) : m \in {BlockWords(data, blk)}} : TRUE
    ELSE CHOOSE r \in
           { Compress(nh, data, nblk)
             : nh \in UNION { {F(h, m, (blk + 1) * BlockBytes, FALSE)}
                              : m \in {BlockWords(data, blk)} },
               nblk \in {blk + 1} } : TRUE

\* parameter block word 0: digest length, no key, fanout 1, depth 1
ParamWord(digest_size) == <<digest_size, 257, 0, 0>>

\* byte p (from 1) of the little-endian rendering of the chaining value h
DigestByte(h, p) ==
  LET limb == h[((p - 1) \div 8) + 1][(((p - 1) % 8) \div 2) + 1]
  IN  IF (p - 1) % 2 = 0 THEN limb % 256 ELSE limb \div 256

\* blake2b(data, digest_size=n).digest(), 1 <= n <= 64
blake2b(data, digest_size) ==
  CHOOSE r \in
    { [p \in 1..digest_size |-> DigestByte(h, p)]
      : h \in UNION { {Compress(h0, data, 0)}
                      : h0 \in {[IV EXCEPT ![1] = Xor64(IV[1], ParamWord(digest_size))]} } }
    : TRUE

----------------------------------------------------------------------------
(* str.encode(): UTF-8; a lone surrogate raises UnicodeEncodeError         *)

IsSurrogate(c) == c >= 55296 /\ c <= 57343

Encodable(s) == \A p \in 1..Len(s) : ~IsSurrogate(s[p])

Utf8(c) ==
  IF c < 128 THEN <<c>>
  ELSE IF c < 2048 THEN <<192 + (c \div 64), 128 + (c % 64)>>
  ELSE IF c < 65536
    THEN <<224 + (c \div 4096), 128 + ((c \div 64) % 64), 128 + (c % 64)>>
  ELSE <<240 + (c \div 262144), 128 + ((c \div 4096) % 64),
         128 + ((c \div 64) % 64), 128 + (c % 64)>>

\* the encoding of characters lo..hi of s, by halves
RECURSIVE EncodeRange(_, _, _)
EncodeRange(s, lo, hi) ==
  IF lo > hi THEN <<>>
  ELSE IF lo = hi THEN Utf8(s[lo])
  ELSE CHOOSE r \in
         { EncodeRange(s, lo, mid) \o EncodeRange(s, mid + 1, hi)
           : mid \in {(lo + hi) \div 2} } : TRUE

encode(s) == EncodeRange(s, 1, Len(s))

----------------------------------------------------------------------------
(* bytes.hex() as used by hexdigest(): two lowercase hex digits per byte   *)

\* (variant: upper-case digits, as format "X" gives)
HexDigitUpper(n) == IF n < 10 THEN 48 + n ELSE 65 + (n - 10)

HexDigit(n) == IF n < 10 THEN 48 + n ELSE 97 + (n - 10)

hexdigest(bytes) ==
  [p \in 1..(2 * Len(bytes)) |->
     LET b == bytes[(p + 1) \div 2]
     IN  IF p % 2 = 1 THEN HexDigit(b \div 16) ELSE HexDigit(b % 16)]

----------------------------------------------------------------------------
(* h32: the Identifier Deriver.  The result records whether the call       *)
(* raised (UnicodeEncodeError from s.encode()) or returned a value.        *)

\* (variant: the hash object is never fed the bytes of s)
h32Const(s) ==
  IF Encodable(s)
    THEN CHOOSE r \in
           { [raised |-> FALSE, value |-> hexdigest(d)]
             : d \in UNION { {blake2b(b, 16)} : b \in {<<>>} } } : TRUE
    ELSE [raised |-> TRUE, value |-> <<>>]

h32(s) ==
  IF Encodable(s)
    THEN CHOOSE r \in
           { [raised |-> FALSE, value |-> hexdigest(d)]
             : d \in UNION { {blake2b(b, 16)} : b \in {encode(s)} } } : TRUE
    ELSE [raised |-> TRUE, value |-> <<>>]

----------------------------------------------------------------------------
(* json: encode_basestring_ascii and the chunks yielded by                 *)
(* JSONEncoder(indent=2).iterencode() for a dict of str -> str             *)

Hex4(n) ==
  <<HexDigit(n \div 4096), HexDigit((n \div 256) % 16),
    HexDigit((n \div 16) % 16), HexDigit(n % 16)>>

\* the replacement of one character: "\\", "\"", \b \f \n \r \t, \u00XX for
\* the other controls, the character itself in ' '..'~', \uXXXX otherwise,
\* as a surrogate pair above the basic plane
EscapeChar(c) ==
  IF c = 92 THEN <<92, 92>>
  ELSE IF c = 34 THEN <<92, 34>>
  ELSE IF c = 8  THEN <<92, 98>>
  ELSE IF c = 12 THEN <<92, 102>>
  ELSE IF c = 10 THEN <<92, 110>>
  ELSE IF c = 13 THEN <<92, 114>>
  ELSE IF c = 9  THEN <<92, 116>>
  ELSE IF c >= 32 /\ c <= 126 THEN <<c>>
  ELSE IF c < 65536 THEN <<92, 117>> \o Hex4(c)
  ELSE LET n == c - 65536
       IN  <<92, 117>> \o Hex4(55296 + ((n \div 1024) % 1024))
           \o <<92, 117>> \o Hex4(56320 + (n % 1024))

\* the replacements of characters lo..hi of s, by halves
RECURSIVE EscapeRange(_, _, _)
EscapeRange(s, lo, hi) ==
  IF lo > hi THEN <<>>
  ELSE IF lo = hi THEN EscapeChar(s[lo])
  ELSE CHOOSE r \in
         { EscapeRange(s, lo, mid) \o EscapeRange(s, mid + 1, hi)
           : mid \in {(lo + hi) \div 2} } : TRUE

encode_basestring_ascii(s) == <<34>> \o EscapeRange(s, 1, Len(s)) \o <<34>>

\* a dict is the sequence of its items [k, v] in insertion order
Keys(d) == [p \in 1..Len(d) |-> d[p].k]

HasKey(d, k) == \E p \in 1..Len(d) : d[p].k = k

\* (variant: every assignment adds an item)
DictSetAppend(d, k, v) == Append(d, [k |-> k, v |-> v])

\* (variant: a new key goes first)
DictSetFront(d, k, v) ==
  IF HasKey(d, k)
    THEN [p \in 1..Len(d) |-> IF d[p].k = k THEN [k |-> k, v |-> v] ELSE d[p]]
    ELSE <<[k |-> k, v |-> v]>> \o d

\* d[k] = v: a new key goes last, an existing key keeps its position
DictSet(d, k, v) ==
  IF HasKey(d, k)
    THEN [p \in 1..Len(d) |-> IF d[p].k = k THEN [k |-> k, v |-> v] ELSE d[p]]
    ELSE Append(d, [k |-> k, v |-> v])

\* chunk number p (from 1) of a non-empty dict of n items:
\* "{", "\n  ", then per item [",\n  "] key ": " value, then "\n", "}"
DictChunk(d, p) ==
  LET n == Len(d)
      q == (p + 1) \div 4
  IN  IF p = 1 THEN <<123>>
      ELSE IF p = 2 THEN <<10, 32, 32>>
      ELSE IF p = 4 * n + 2 THEN <<10>>
      ELSE IF p = 4 * n + 3 THEN <<125>>
      ELSE IF p % 4 = 2 THEN <<44, 10, 32, 32>>
      ELSE IF p % 4 = 3 THEN encode_basestring_ascii(d[q].k)
      ELSE IF p % 4 = 0 THEN <<58, 32>>
      ELSE encode_basestring_ascii(d[q].v)

iterencode(d) ==
  IF d = <<>> THEN << <<123, 125>> >>
  ELSE [p \in 1..(4 * Len(d) + 3) |-> DictChunk(d, p)]

\* the text of a sequence of chunks written one after the other
RECURSIVE Text(_)
Text(chunks) ==
  IF chunks = <<>> THEN <<>> ELSE Head(chunks) \o Text(Tail(chunks))

----------------------------------------------------------------------------
(* The name list and the inputs the runs are checked on                    *)

\* "C.Messenger", "C.Jobs", "C.Office", "C.Policy", "C.Runner"
CONTAINERS == <<
  <<67, 46, 77, 101, 115, 115, 101, 110, 103, 101, 114>>,
  <<67, 46, 74, 111, 98, 115>>,
  <<67, 46, 79, 102, 102, 105, 99, 101>>,
  <<67, 46, 80, 111, 108, 105, 99, 121>>,
  <<67, 46, 82, 117, 110, 110, 101, 114>> >>

MaxNames == 2
LongLen == 129

\* a name longer than one hash block
LongName == [p \in 1..LongLen |-> 97]

\* other names a list put in place of CONTAINERS may hold: the empty name,
\* one with a quote, 2- and 3-byte characters and a newline, one outside the
\* basic plane, a lone surrogate, and a long one
OtherNames ==
  { <<>>, <<34, 233, 8364, 10>>, <<128512>>, <<55296>>, LongName }

Range(s) == {s[p] : p \in DOMAIN s}

NamePool == Range(CONTAINERS) \cup OtherNames

NameLists == {CONTAINERS} \cup UNION {[1..m -> OtherNames] : m \in 0..MaxNames}

\* what the process finds around it: arguments, environment, files
Baseline == [argv |-> <<>>, environ |-> {}, files |-> {}]
Loaded ==
  [argv    |-> << <<67, 46, 74, 111, 98, 115>> >>,
   environ |-> {<<"CONTAINERS", "C.Jobs">>},
   files   |-> {"containers.json"}]
ExternalInputs == {Baseline, Loaded}

\* h32 tabulated on the names of the pool
H32Table == {<<n, h32(n)>> : n \in NamePool}

----------------------------------------------------------------------------
(* State                                                                   *)

VARIABLES
  digests,   \* the results of h32 on the names of the pool, computed once
  names,     \* the list in the place of CONTAINERS
  external,  \* argv, environment and files of the running process
  pc,        \* "idle" before the program is started, "running", "exited"
  status,    \* exit status, -1 while running
  i,         \* number of names the comprehension has consumed
  out,       \* the dict being built, then dumped
  calls,     \* the calls of h32 so far: argument and outcome
  j,         \* number of chunks json.dump has written
  stdout,    \* the chunks written to sys.stdout, in order
  first      \* the outcome of the earlier run, once the program is run again

vars == <<digests, names, external, pc, status, i, out, calls, j, stdout, first>>

NoRun == [ran |-> FALSE, stdout |-> <<>>, status |-> -1, external |-> Baseline]

\* h32(name), read from the table
Identifier(name) == (CHOOSE e \in digests : e[1] = name)[2]

Building == pc = "running" /\ i < Len(names)
Dumping  == pc = "running" /\ i = Len(names)

Init ==
  /\ digests = H32Table
  /\ names = <<>>
  /\ external = Baseline
  /\ pc = "idle"
  /\ status = -1
  /\ i = 0
  /\ out = <<>>
  /\ calls = <<>>
  /\ j = 0
  /\ stdout = <<>>
  /\ first = NoRun

\* the interpreter is started on the script, with a list of names in the
\* place of CONTAINERS, and given arguments, environment and files
Launch ==
  /\ pc = "idle"
  /\ names' \in NameLists
  /\ external' \in ExternalInputs
  /\ pc' = "running"
  /\ UNCHANGED <<digests, status, i, out, calls, j, stdout, first>>

\* the call h32(arg), as logged
Call(arg) ==
  LET r == Identifier(arg)
  IN  [arg |-> arg, raised |-> r.raised, value |-> r.value]

\* (variant: one hash object serves every call, so that a call hashes the
\* bytes of the earlier names too)
RECURSIVE ArgsOf(_)
ArgsOf(cs) == IF cs = <<>> THEN <<>> ELSE Head(cs).arg \o ArgsOf(Tail(cs))

CallReusedHasher(arg) ==
  LET r == h32(ArgsOf(calls) \o arg)
  IN  [arg |-> arg, raised |-> r.raised, value |-> r.value]

\* one item "key: h32(arg)" of the comprehension, c being the call made; an
\* exception in h32 is not caught and ends the process with status 1
Iteration(key, c) ==
  /\ calls' = Append(calls, c)
  /\ IF c.raised
       THEN /\ pc' = "exited"
            /\ status' = 1
            /\ UNCHANGED <<i, out>>
       ELSE /\ out' = DictSet(out, key, c.value)
            /\ i' = i + 1
            /\ UNCHANGED <<pc, status>>
  /\ UNCHANGED <<digests, names, external, j, stdout, first>>

\* (variant: the value of the name before)
DeriveShifted ==
  /\ Building
  /\ Iteration(names[i + 1], Call(names[IF i = 0 THEN 1 ELSE i]))

\* (variant: see CallReusedHasher)
DeriveReusedHasher ==
  /\ Building
  /\ Iteration(names[i + 1], CallReusedHasher(names[i + 1]))

\* (variant: names given as arguments replace those of the list)
DeriveFromArgv ==
  /\ Building
  /\ LET name == IF i + 1 <= Len(external.argv)
                   THEN external.argv[i + 1] ELSE names[i + 1]
     IN  Iteration(name, Call(name))

\* (variant: h32 is called a second time for each name)
DeriveTwice ==
  /\ Building
  /\ LET c == Call(names[i + 1])
     IN  /\ calls' = calls \o <<c, c>>
         /\ IF c.raised
              THEN /\ pc' = "exited"
                   /\ status' = 1
                   /\ UNCHANGED <<i, out>>
              ELSE /\ out' = DictSet(out, names[i + 1], c.value)
                   /\ i' = i + 1
                   /\ UNCHANGED <<pc, status>>
  /\ UNCHANGED <<digests, names, external, j, stdout, first>>

\* out = { name: h32(name) for name in CONTAINERS }, one name at a time
Derive ==
  /\ Building
  /\ Iteration(names[i + 1], Call(names[i + 1]))

\* (variant: each item is written as soon as it is derived)
WriteEarly ==
  /\ pc = "running"
  /\ j < Len(iterencode(out))
  /\ stdout' = Append(stdout, iterencode(out)[j + 1])
  /\ j' = j + 1
  /\ UNCHANGED <<digests, names, external, pc, status, i, out, calls, first>>

\* json.dump: for chunk in iterable: fp.write(chunk)
Write ==
  /\ Dumping
  /\ j < Len(iterencode(out))
  /\ stdout' = Append(stdout, iterencode(out)[j + 1])
  /\ j' = j + 1
  /\ UNCHANGED <<digests, names, external, pc, status, i, out, calls, first>>

\* fp.write raises OSError (closed pipe, full disk, lost terminal): the
\* exception is not caught, what was written stays written
WriteFail ==
  /\ Dumping
  /\ j < Len(iterencode(out))
  /\ pc' = "exited"
  /\ status' = 1
  /\ UNCHANGED <<digests, names, external, i, out, calls, j, stdout, first>>

\* (variant: the script ends while chunks remain to be written)
ExitEarly ==
  /\ Dumping
  /\ pc' = "exited"
  /\ status' = 0
  /\ UNCHANGED <<digests, names, external, i, out, calls, j, stdout, first>>

\* the end of the script
Exit ==
  /\ Dumping
  /\ j = Len(iterencode(out))
  /\ pc' = "exited"
  /\ status' = 0
  /\ UNCHANGED <<digests, names, external, i, out, calls, j, stdout, first>>

\* the program is run a second time, with the same source and whatever
\* arguments, environment and files, after a run that the environment did
\* not cut short (the second run may be cut short)
Rerun ==
  /\ pc = "exited"
  /\ ~first.ran
  /\ status = 0 \/ i < Len(names)
  /\ first' = [ran |-> TRUE, stdout |-> stdout, status |-> status, external |-> external]
  /\ external' \in ExternalInputs
  /\ pc' = "running"
  /\ status' = -1
  /\ i' = 0
  /\ out' = <<>>
  /\ calls' = <<>>
  /\ j' = 0
  /\ stdout' = <<>>
  /\ UNCHANGED <<digests, names>>

Next == Launch \/ Derive \/ Write \/ WriteFail \/ Exit \/ Rerun

Spec == Init /\ [][Next]_vars

\* a single run in which the environment does not fail; the interpreter
\* always takes the next step of the script
NextNoFail == Launch \/ Derive \/ Write \/ Exit

FairSpec == Init /\ [][NextNoFail]_vars /\ WF_vars(NextNoFail)

-------------------------------------------------------------------------------------------------------------------------------------------------
(* Properties                                                              *)

Done == pc = "exited" /\ status = 0

NoDuplicates(s) == \A p, q \in 1..Len(s) : s[p] = s[q] => p = q

\* the number of items of a complete non-empty document of chunks
ItemCount(doc) == IF Len(doc) < 7 THEN 0 ELSE (Len(doc) - 3) \div 4

\* the key and value chunks of a document, in the order written
EmittedKeys(doc)   == [q \in 1..ItemCount(doc) |-> doc[4 * q - 1]]
EmittedValues(doc) == [q \in 1..ItemCount(doc) |-> doc[4 * q + 1]]

IsPrefix(s, t) == Len(s) <= Len(t) /\ \A p \in 1..Len(s) : s[p] = t[p]

HexChars == (48..57) \cup (97..102)

IsId32(v) == Len(v) = 32 /\ \A p \in 1..Len(v) : v[p] \in HexChars

TypeOK ==
  /\ pc \in {"idle", "running", "exited"}
  /\ status \in {-1, 0, 1}
  /\ (status = -1) <=> (pc \in {"idle", "running"})
  /\ i \in 0..Len(names)
  /\ j \in 0..Len(iterencode(out))
  /\ Len(stdout) = j
  /\ pc # "idle" => names \in NameLists
  /\ external \in ExternalInputs

\* C1 (completeness): when a run has ended normally, the keys of the mapping
\* are exactly the names of the list, each name being a key once, in the dict
\* and in the document written.
Completeness ==
  Done =>
    /\ Range(Keys(out)) = Range(names)
    /\ NoDuplicates(Keys(out))
    /\ Len(EmittedKeys(stdout)) = Cardinality(Range(names))
    /\ NoDuplicates(EmittedKeys(stdout))
    /\ Range(EmittedKeys(stdout)) = {encode_basestring_ascii(n) : n \in Range(names)}

\* a normal end on a list that names something twice
CompletenessWitness ==
  Done /\ Len(names) = 2 /\ names[1] = names[2] /\ Len(out) = 1

\* C2 (correct association): the value stored under a name is h32 of that
\* very name, at every moment in the dict and, after a normal end, in the
\* document: the value chunk that follows a key chunk is the digest of that key.
CorrectAssociation ==
  /\ \A p \in 1..Len(out) :
        /\ ~Identifier(out[p].k).raised
        /\ out[p].v = Identifier(out[p].k).value
  /\ Done =>
       \A q \in 1..ItemCount(stdout) :
          \E n \in Range(names) :
             /\ EmittedKeys(stdout)[q] = encode_basestring_ascii(n)
             /\ EmittedValues(stdout)[q] = encode_basestring_ascii(Identifier(n).value)

CorrectAssociationWitness ==
  Done /\ Len(out) >= 2 /\ out[1].k # out[2].k /\ out[1].v # out[2].v

\* C3 (order preservation): after a normal end on a list without repeated
\* names, CONTAINERS among them, the keys are written in the order of the list.
OrderPreservation ==
  (Done /\ NoDuplicates(names)) =>
     EmittedKeys(stdout) = [q \in 1..Len(names) |-> encode_basestring_ascii(names[q])]

OrderPreservationWitness ==
  /\ Done
  /\ names = CONTAINERS
  /\ EmittedKeys(stdout)[1] = encode_basestring_ascii(CONTAINERS[1])
  /\ EmittedKeys(stdout)[5] = encode_basestring_ascii(CONTAINERS[5])

\* C4 (digest format): every identifier in the mapping is 32 lowercase
\* hexadecimal characters, and is written between two quotes unchanged.
DigestFormat ==
  /\ \A p \in 1..Len(out) : IsId32(out[p].v)
  /\ Done =>
       \A q \in 1..ItemCount(stdout) :
          LET c == EmittedValues(stdout)[q]
          IN  /\ Len(c) = 34
              /\ c[1] = 34
              /\ c[34] = 34
              /\ IsId32(SubSeq(c, 2, 33))

\* identifiers of the empty name, of a name longer than a hash block and of
\* a name outside ASCII
DigestFormatWitness ==
  /\ \E p \in 1..Len(out) : out[p].k = LongName
  /\ \E p \in 1..Len(out) : out[p].k = <<128512>> \/ out[p].k = <<>>

\* C5 (determinism): two runs that end normally write the same text, and
\* h32 called twice with the same name, in one run, has the same outcome.
Determinism ==
  /\ (Done /\ first.ran /\ first.status = 0) => Text(stdout) = Text(first.stdout)
  /\ \A p, q \in 1..Len(calls) :
        calls[p].arg = calls[q].arg =>
           calls[p].raised = calls[q].raised /\ calls[p].value = calls[q].value

DeterminismWitness ==
  /\ Done /\ first.ran /\ first.status = 0
  /\ first.external = external
  /\ Len(calls) = 2 /\ calls[1].arg = calls[2].arg

\* C6 (argument independence): two runs given different arguments,
\* environment and files write the same text when both end normally, and
\* otherwise, one of them having been cut short, texts of which one begins
\* the other.
ArgumentIndependence ==
  (pc = "exited" /\ first.ran /\ first.external # external) =>
     /\ (status = 0 /\ first.status = 0) => Text(stdout) = Text(first.stdout)
     /\ \/ IsPrefix(Text(stdout), Text(first.stdout))
        \/ IsPrefix(Text(first.stdout), Text(stdout))

ArgumentIndependenceWitness ==
  /\ Done /\ first.ran /\ first.status = 0
  /\ first.external = Baseline /\ external = Loaded
  /\ names = CONTAINERS

\* C7 as stated (all or nothing): a run never ends with only part of the
\* document written.
AllOrNothing ==
  pc = "exited" => (stdout = <<>> \/ stdout = iterencode(out))

\* C7 as amended: what has been written always begins the document; a run
\* that ends normally has written all of it from the complete mapping, a run
\* that fails while deriving has written nothing, and a run that fails while
\* writing has written a part of it, which may be empty but is never the whole.
PartialOnlyWhileWriting ==
  /\ IsPrefix(stdout, iterencode(out))
  /\ Done => (stdout = iterencode(out) /\ Range(Keys(out)) = Range(names))
  /\ (pc = "exited" /\ i < Len(names)) => (status = 1 /\ stdout = <<>>)
  /\ (pc = "exited" /\ status = 1 /\ i = Len(names))
        => Len(stdout) < Len(iterencode(out))

\* a write of CONTAINERS' document fails after the second entry
PartialOnlyWhileWritingWitness ==
  /\ pc = "exited" /\ status = 1
  /\ names = CONTAINERS
  /\ Len(stdout) = 9
  /\ Len(iterencode(out)) = 23

\* C8 (termination): if no name of the list fails to encode and the
\* environment does not fail, the run ends with status 0, having called h32
\* once for each name of the list, in order, and written the whole document.
TerminatesNormally ==
  (pc = "running" /\ \A n \in Range(names) : Encodable(n))
     ~> (/\ Done
         /\ Len(calls) = Len(names)
         /\ \A p \in 1..Len(calls) : calls[p].arg = names[p] /\ ~calls[p].raised
         /\ stdout = iterencode(out))

TerminatesNormallyWitness ==
  /\ Done
  /\ Len(names) = 5
  /\ Len(calls) = 5
  /\ \A p \in 1..5 : calls[p].arg = CONTAINERS[p]
  /\ j = 23

\* C9 (injectivity): the five identifiers of CONTAINERS are pairwise
\* distinct, in the dict and in the document.
Injectivity ==
  (Done /\ names = CONTAINERS) =>
     /\ Len(out) = 5
     /\ NoDuplicates([p \in 1..Len(out) |-> out[p].v])
     /\ Len(EmittedValues(stdout)) = 5
     /\ NoDuplicates(EmittedValues(stdout))

\* the identifiers of "C.Messenger" and "C.Runner", as hashlib gives them:
\* 96fc4e7e0691a83b54577e08f7b58c0b and 86e898b43e21a950d10bc3aacaf953e6
InjectivityWitness ==
  /\ Done /\ names = CONTAINERS
  /\ out[1].v = <<57, 54, 102, 99, 52, 101, 55, 101, 48, 54, 57, 49, 97, 56, 51, 98,
                  53, 52, 53, 55, 55, 101, 48, 56, 102, 55, 98, 53, 56, 99, 48, 98>>
  /\ out[5].v = <<56, 54, 101, 56, 57, 56, 98, 52, 51, 101, 50, 49, 97, 57, 53, 48,
                  100, 49, 48, 98, 99, 51, 97, 97, 99, 97, 102, 57, 53, 51, 101, 54>>

\* C10 (compute before write): nothing is written before h32 has been called
\* on every name of the list and the mapping is complete; a run that ends in
\* an exception of h32 has written nothing; no step of a run changes the list.
ComputeBeforeWrite ==
  /\ [](stdout # <<>> =>
          /\ i = Len(names)
          /\ Len(calls) = Len(names)
          /\ Range(Keys(out)) = Range(names))
  /\ []((pc = "exited" /\ calls # <<>> /\ calls[Len(calls)].raised) => stdout = <<>>)
  /\ [][pc # "idle" => names' = names]_vars

\* h32 raises on the second name, after one identifier was derived
ComputeBeforeWriteWitness ==
  /\ pc = "exited" /\ status = 1
  /\ Len(calls) = 2 /\ calls[2].raised
  /\ Len(out) = 1
  /\ stdout = <<>>
====
